---- MODULE Spec2Model ----
(***************************************************************************)
(* The static-website stack declared in bin/cloud-foundation-project.ts:   *)
(* a private S3 bucket, a BucketDeployment that syncs the local dist       *)
(* directory into it, a WAF WebACL of managed rule groups and a CloudFront *)
(* distribution in front of the bucket.  The state is the local dist       *)
(* directory, the declaration, the deployed stack and the bucket's         *)
(* objects; the actions are the local edits and the steps of `cdk deploy`  *)
(* and `cdk destroy`.                                                      *)
(***************************************************************************)
EXTENDS Integers, FiniteSets, Sequences, TLC

\* Number of distinct file contents the local edits choose from.
MaxContent == 2

\* Files of the dist directory; a content of 0 means "no such file / object".
Files == {"index.html", "script.js"}
Contents == 1..MaxContent
Dirs == [Files -> {0} \cup Contents]
EmptyDir == [f \in Files |-> 0]
Present(d) == {f \in Files : d[f] # 0}

\* The constructs of the stack, by their construct ids.
Resources == {"WebsiteBucket", "WebsiteFiles", "WebsiteACL", "WebsiteDistribution"}
NoResource == [type |-> "none"]

VARIABLES
  dist,       \* the local build directory: file -> content
  declared,   \* construct ids present in the declaration
  phase,      \* "idle", "deploying" (cdk deploy), "destroying" (cdk destroy)
  asset,      \* the snapshot of dist that the running deploy synthesized
  template,   \* the synthesized template of the running command
  pending,    \* the change set of the running command still to be applied
  deployed,   \* the stack: construct id -> deployed properties
  objects,    \* current objects of the website bucket: key -> content
  versions,   \* every version the bucket holds: key -> set of contents
  since       \* what happened last: "nothing", "edit", "deploy", "destroy"

vars == <<dist, declared, phase, asset, template, pending, deployed, objects, versions, since>>

(***************************************************************************)
(* The declaration.                                                        *)
(***************************************************************************)
\* s3.BlockPublicAccess.BLOCK_ACLS: public ACLs are blocked, public policies
\* are not.
BLOCK_ACLS ==
  [blockPublicAcls |-> TRUE, blockPublicPolicy |-> FALSE,
   ignorePublicAcls |-> TRUE, restrictPublicBuckets |-> FALSE]

BLOCK_ALL ==
  [blockPublicAcls |-> TRUE, blockPublicPolicy |-> TRUE,
   ignorePublicAcls |-> TRUE, restrictPublicBuckets |-> TRUE]

\* A bucket declared the way a public website bucket is: a public-read ACL
\* and no public-access block.
website_bucket_public ==
  [type |-> "s3.Bucket",
   encryption |-> "S3_MANAGED",
   accessControl |-> "PUBLIC_READ",
   blockPublicAccess |->
     [blockPublicAcls |-> FALSE, blockPublicPolicy |-> FALSE,
      ignorePublicAcls |-> FALSE, restrictPublicBuckets |-> FALSE],
   removalPolicy |-> "DESTROY",
   autoDeleteObjects |-> TRUE,
   websiteIndexDocument |-> "index.html",
   versioned |-> TRUE,
   enforceSSL |-> TRUE]

\* The bucket declared with the production settings: kept when the stack is
\* destroyed, its objects not deleted.
website_bucket_retained ==
  [type |-> "s3.Bucket",
   encryption |-> "S3_MANAGED",
   accessControl |-> "PRIVATE",
   blockPublicAccess |-> BLOCK_ALL,
   removalPolicy |-> "RETAIN",
   autoDeleteObjects |-> FALSE,
   websiteIndexDocument |-> "index.html",
   versioned |-> TRUE,
   enforceSSL |-> TRUE]

\* The bucket declared without versioning.
website_bucket_unversioned ==
  [type |-> "s3.Bucket",
   encryption |-> "S3_MANAGED",
   accessControl |-> "PRIVATE",
   blockPublicAccess |-> BLOCK_ALL,
   removalPolicy |-> "DESTROY",
   autoDeleteObjects |-> TRUE,
   websiteIndexDocument |-> "index.html",
   versioned |-> FALSE,
   enforceSSL |-> TRUE]

website_bucket ==
  [type |-> "s3.Bucket",
   encryption |-> "S3_MANAGED",
   accessControl |-> "PRIVATE",
   blockPublicAccess |-> BLOCK_ALL,
   removalPolicy |-> "DESTROY",
   autoDeleteObjects |-> TRUE,
   websiteIndexDocument |-> "index.html",
   versioned |-> TRUE,
   enforceSSL |-> TRUE]

\* Source.asset fingerprints the directory: the position of a file in the
\* directory listing and its content both enter the fingerprint.
FileIndex(f) == IF f = "index.html" THEN 0 ELSE 1
RECURSIVE Power(_, _)
Power(b, n) == IF n = 0 THEN 1 ELSE b * Power(b, n - 1)
RECURSIVE HashOver(_, _)
HashOver(d, fs) ==
  IF fs = {} THEN 0
  ELSE LET f == CHOOSE x \in fs : TRUE
       IN d[f] * Power(MaxContent + 1, FileIndex(f)) + HashOver(d, fs \ {f})
\* A fingerprint of the file names only: a changed content goes unnoticed.
AssetHashOfNames(d) == HashOver([f \in Files |-> IF d[f] # 0 THEN 1 ELSE 0], Files)

AssetHash(d) == HashOver(d, Files)

\* The deployment declared without prune.
WebsiteFiles_no_prune(d) ==
  [type |-> "s3_deployment.BucketDeployment",
   destinationBucket |-> "WebsiteBucket",
   sourceObjectKey |-> AssetHash(d),
   prune |-> FALSE,
   retainOnDelete |-> TRUE]

\* The deployment declared without retainOnDelete.
WebsiteFiles_no_retain(d) ==
  [type |-> "s3_deployment.BucketDeployment",
   destinationBucket |-> "WebsiteBucket",
   sourceObjectKey |-> AssetHash(d),
   prune |-> TRUE,
   retainOnDelete |-> FALSE]

WebsiteFiles(d) ==
  [type |-> "s3_deployment.BucketDeployment",
   destinationBucket |-> "WebsiteBucket",
   sourceObjectKey |-> AssetHash(d),
   prune |-> TRUE,
   retainOnDelete |-> TRUE]

\* A rule declared with overrideAction count.
ManagedRuleCounted(ruleName, prio, group) ==
  [name |-> ruleName, priority |-> prio, vendorName |-> "AWS",
   groupName |-> group, overrideAction |-> "count"]

ManagedRule(ruleName, prio, group) ==
  [name |-> ruleName, priority |-> prio, vendorName |-> "AWS",
   groupName |-> group, overrideAction |-> "none"]

\* The rule list with a priority copied from the rule above it.
rules_shared_priority ==
  << ManagedRule("AWS-AWSManagedRulesCommonRuleSet", 1, "AWSManagedRulesCommonRuleSet"),
     ManagedRule("AWS-AWSManagedRulesAnonymousIpList", 2, "AWSManagedRulesAnonymousIpList"),
     ManagedRule("AWS-AWSManagedRulesAmazonIpReputationList", 3,
                 "AWSManagedRulesAmazonIpReputationList"),
     ManagedRule("AWS-AWSManagedRulesKnownBadInputsRuleSet", 3,
                 "AWSManagedRulesKnownBadInputsRuleSet"),
     ManagedRule("AWS-AWSManagedRulesSQLiRuleSet", 5, "AWSManagedRulesSQLiRuleSet") >>

\* The rule list with the priorities of the first two rules exchanged.
rules_out_of_order ==
  << ManagedRule("AWS-AWSManagedRulesCommonRuleSet", 2, "AWSManagedRulesCommonRuleSet"),
     ManagedRule("AWS-AWSManagedRulesAnonymousIpList", 1, "AWSManagedRulesAnonymousIpList"),
     ManagedRule("AWS-AWSManagedRulesAmazonIpReputationList", 3,
                 "AWSManagedRulesAmazonIpReputationList"),
     ManagedRule("AWS-AWSManagedRulesKnownBadInputsRuleSet", 4,
                 "AWSManagedRulesKnownBadInputsRuleSet"),
     ManagedRule("AWS-AWSManagedRulesSQLiRuleSet", 5, "AWSManagedRulesSQLiRuleSet") >>

rules ==
  << ManagedRule("AWS-AWSManagedRulesCommonRuleSet", 1, "AWSManagedRulesCommonRuleSet"),
     ManagedRule("AWS-AWSManagedRulesAnonymousIpList", 2, "AWSManagedRulesAnonymousIpList"),
     ManagedRule("AWS-AWSManagedRulesAmazonIpReputationList", 3,
                 "AWSManagedRulesAmazonIpReputationList"),
     ManagedRule("AWS-AWSManagedRulesKnownBadInputsRuleSet", 4,
                 "AWSManagedRulesKnownBadInputsRuleSet"),
     ManagedRule("AWS-AWSManagedRulesSQLiRuleSet", 5, "AWSManagedRulesSQLiRuleSet") >>

webAcl ==
  [type |-> "wafv2.CfnWebACL",
   scope |-> "CLOUDFRONT",
   defaultAction |-> "allow",
   rules |-> rules]

\* The distribution declared with an origin bucket the stack does not declare.
distribution_other_origin ==
  [type |-> "cloudfront.Distribution",
   defaultRootObject |-> "index.html",
   origins |-> {[bucket |-> "LoggingBucket", access |-> "OriginAccessControl"]},
   enableLogging |-> TRUE,
   webAclId |-> "WebsiteACL"]

\* The distribution declared with another default root object.
distribution_other_root ==
  [type |-> "cloudfront.Distribution",
   defaultRootObject |-> "home.html",
   origins |-> {[bucket |-> "WebsiteBucket", access |-> "OriginAccessControl"]},
   enableLogging |-> TRUE,
   webAclId |-> "WebsiteACL"]

distribution ==
  [type |-> "cloudfront.Distribution",
   defaultRootObject |-> "index.html",
   origins |-> {[bucket |-> "WebsiteBucket", access |-> "OriginAccessControl"]},
   enableLogging |-> TRUE,
   webAclId |-> "WebsiteACL"]

\* The properties the constructor gives construct r, for a dist directory d.
Construct(r, d) ==
  CASE r = "WebsiteBucket" -> website_bucket
    [] r = "WebsiteFiles" -> WebsiteFiles(d)
    [] r = "WebsiteACL" -> webAcl
    [] r = "WebsiteDistribution" -> distribution

\* cdk synth of an app that instantiates AleezaStack: the template of the
\* declared constructs.
Synthesize(decl, d) ==
  [r \in Resources |-> IF r \in decl THEN Construct(r, d) ELSE NoResource]

NoStack == [r \in Resources |-> NoResource]
Exists(stack, r) == stack[r] # NoResource
Created(stack) == {r \in Resources : Exists(stack, r)}

(***************************************************************************)
(* What the provisioning engine derives from the declaration.              *)
(***************************************************************************)
\* The references without the distribution's WebACL, as when webAclId is a
\* literal ARN instead of webAcl.attrArn.
DepsWithoutWebAcl(p) ==
  CASE p.type = "s3_deployment.BucketDeployment" -> {p.destinationBucket}
    [] p.type = "cloudfront.Distribution" -> {o.bucket : o \in p.origins}
    [] OTHER -> {}

\* The constructs that the properties p refer to: they must exist first.
Deps(p) ==
  CASE p.type = "s3_deployment.BucketDeployment" -> {p.destinationBucket}
    [] p.type = "cloudfront.Distribution" ->
         {o.bucket : o \in p.origins} \cup {p.webAclId}
    [] OTHER -> {}

\* A diff that always re-runs the deployment, changed or not.
ChangeSetForced(tmpl, stack) ==
  {r \in Resources : tmpl[r] # stack[r]} \cup
  {r \in Resources : tmpl[r].type = "s3_deployment.BucketDeployment"}

\* cdk diff: the constructs whose synthesized properties differ from the stack.
ChangeSet(tmpl, stack) == {r \in Resources : tmpl[r] # stack[r]}

\* r's references are all deployed, with no change to them still to apply.
DepsReady(tmpl, stack, todo, r) ==
  \A q \in Deps(tmpl[r]) : q \in Resources /\ Exists(stack, q) /\ q \notin todo

\* No construct still in the stack refers to r.
Unreferenced(stack, r) ==
  \A q \in Created(stack) \ {r} : r \notin Deps(stack[q])

(***************************************************************************)
(* The Asset Sync Step (BucketDeployment handler) and bucket deletion.     *)
(***************************************************************************)
\* aws s3 sync [--delete]: every file of the asset is uploaded; with prune,
\* objects that have no file in the asset are deleted.
SyncObjects(a, objs, prune) ==
  [k \in Files |-> IF a[k] # 0 THEN a[k] ELSE IF prune THEN 0 ELSE objs[k]]

\* In a versioned bucket an overwrite or a delete keeps the earlier versions.
SyncVersions(a, objs, vers, prune, versioned) ==
  [k \in Files |->
     IF a[k] # 0 THEN (IF versioned THEN vers[k] ELSE {}) \cup {a[k]}
     ELSE IF prune /\ objs[k] # 0 THEN (IF versioned THEN vers[k] ELSE {})
     ELSE vers[k]]

NoVersions == [k \in Files |-> {}]

\* Removing the BucketDeployment: the uploaded objects are deleted unless
\* retainOnDelete is set.
RemoveFilesObjects(p, objs) == IF p.retainOnDelete THEN objs ELSE EmptyDir
RemoveFilesVersions(p, bucket, vers) ==
  IF p.retainOnDelete \/ bucket.versioned THEN vers ELSE NoVersions

\* Deleting the bucket: autoDeleteObjects empties it (all versions) first.
Emptied(p) == p.removalPolicy = "DESTROY" /\ p.autoDeleteObjects

(***************************************************************************)
(* Requests: reads of the bucket, and the WebACL's evaluation.             *)
(***************************************************************************)
\* A GetObject request as the bucket sees it: who signs it, on behalf of
\* which distribution, over which transport, for which key.
BucketRequests ==
  [principal : {"anonymous", "cloudfront.amazonaws.com"},
   sourceArn : {"none", "WebsiteDistribution", "OtherDistribution"},
   secureTransport : BOOLEAN,
   key : Files]

\* enforceSSL: the bucket policy denies every request not made over TLS.
DeniedByPolicy(stack, req) ==
  stack["WebsiteBucket"].enforceSSL /\ ~req.secureTransport

\* withOriginAccessControl: the bucket policy lets the CloudFront service
\* principal read, on condition that it acts for this stack's distribution.
AllowedByOriginAccessControl(stack, req) ==
  \E r \in Created(stack) :
    /\ stack[r].type = "cloudfront.Distribution"
    /\ \E o \in stack[r].origins :
         o.bucket = "WebsiteBucket" /\ o.access = "OriginAccessControl"
    /\ req.principal = "cloudfront.amazonaws.com"
    /\ req.sourceArn = r

\* A public-read ACL lets everyone read unless the public-access block
\* ignores public ACLs.
AllowedByAcl(stack, req) ==
  /\ stack["WebsiteBucket"].accessControl = "PUBLIC_READ"
  /\ ~stack["WebsiteBucket"].blockPublicAccess.ignorePublicAcls

\* The bucket serves the object to the request.
GetObjectAllowed(stack, objs, req) ==
  /\ Exists(stack, "WebsiteBucket")
  /\ objs[req.key] # 0
  /\ ~DeniedByPolicy(stack, req)
  /\ AllowedByOriginAccessControl(stack, req) \/ AllowedByAcl(stack, req)

\* A web request, as the WebACL sees it: the managed rule groups it matches.
GroupNames == {rules[i].groupName : i \in 1..Len(rules)}
WafRequests == SUBSET GroupNames

\* The rules in the order WAF evaluates them: lowest priority number first.
RECURSIVE ByPriority(_)
ByPriority(rs) ==
  IF rs = {} THEN << >>
  ELSE LET first == CHOOSE r \in rs : \A q \in rs : r.priority <= q.priority
       IN << first >> \o ByPriority(rs \ {first})

\* A managed rule group blocks what it matches; with override action none
\* that action stands and ends the evaluation, with count it is only counted.
RECURSIVE EvaluateFrom(_, _, _, _)
EvaluateFrom(acl, rs, i, m) ==
  IF i > Len(rs) THEN [action |-> acl.defaultAction, rule |-> "default"]
  ELSE IF rs[i].groupName \in m /\ rs[i].overrideAction = "none"
         THEN [action |-> "block", rule |-> rs[i].name]
         ELSE EvaluateFrom(acl, rs, i + 1, m)

Evaluate(acl, m) ==
  EvaluateFrom(acl, ByPriority({acl.rules[i] : i \in 1..Len(acl.rules)}), 1, m)

(***************************************************************************)
(* Actions.                                                                *)
(***************************************************************************)
Init ==
  /\ dist = [f \in Files |-> IF f = "index.html" THEN 1 ELSE 0]
  /\ declared = Resources
  /\ phase = "idle"
  /\ asset = EmptyDir
  /\ template = NoStack
  /\ pending = {}
  /\ deployed = NoStack
  /\ objects = EmptyDir
  /\ versions = NoVersions
  /\ since = "nothing"

\* A local build writes file f with content c (a new file or a changed one).
\* The commands are synchronous: local edits are made between them.
EditFile(f, c) ==
  /\ phase = "idle"
  /\ dist[f] # c
  /\ dist' = [dist EXCEPT ![f] = c]
  /\ since' = "edit"
  /\ UNCHANGED <<declared, phase, asset, template, pending, deployed, objects, versions>>

\* A file is removed from the local build directory.
RemoveFile(f) ==
  /\ phase = "idle"
  /\ dist[f] # 0
  /\ dist' = [dist EXCEPT ![f] = 0]
  /\ since' = "edit"
  /\ UNCHANGED <<declared, phase, asset, template, pending, deployed, objects, versions>>

\* The BucketDeployment construct is taken out of the declaration.
RemoveSyncStep ==
  /\ phase = "idle"
  /\ "WebsiteFiles" \in declared
  /\ declared' = declared \ {"WebsiteFiles"}
  /\ since' = "edit"
  /\ UNCHANGED <<dist, phase, asset, template, pending, deployed, objects, versions>>

\* The BucketDeployment construct is put back into the declaration.
RestoreSyncStep ==
  /\ phase = "idle"
  /\ "WebsiteFiles" \notin declared
  /\ declared' = declared \cup {"WebsiteFiles"}
  /\ since' = "edit"
  /\ UNCHANGED <<dist, phase, asset, template, pending, deployed, objects, versions>>

\* cdk deploy starts: the app is synthesized and dist is staged as an asset.
StartDeploy ==
  /\ phase = "idle"
  /\ phase' = "deploying"
  /\ asset' = dist
  /\ template' = Synthesize(declared, dist)
  /\ pending' = ChangeSet(template', deployed)
  /\ UNCHANGED <<dist, declared, deployed, objects, versions, since>>

\* cdk destroy starts: every construct of the stack is to be deleted.
StartDestroy ==
  /\ phase = "idle"
  /\ Created(deployed) # {}
  /\ phase' = "destroying"
  /\ asset' = EmptyDir
  /\ template' = NoStack
  /\ pending' = ChangeSet(template', deployed)
  /\ UNCHANGED <<dist, declared, deployed, objects, versions, since>>

\* The engine creates or updates construct r once its references are ready.
\* Creating or updating the BucketDeployment runs the sync.
Provision(r) ==
  /\ phase = "deploying"
  /\ r \in pending
  /\ Exists(template, r)
  /\ DepsReady(template, deployed, pending, r)
  /\ deployed' = [deployed EXCEPT ![r] = template[r]]
  /\ pending' = pending \ {r}
  /\ IF r = "WebsiteFiles"
       THEN LET p == template[r]
                b == deployed[p.destinationBucket]
            IN /\ objects' = SyncObjects(asset, objects, p.prune)
               /\ versions' = SyncVersions(asset, objects, versions, p.prune, b.versioned)
       ELSE UNCHANGED <<objects, versions>>
  /\ UNCHANGED <<dist, declared, phase, asset, template, since>>

\* The engine deletes construct r, which the template no longer has, after
\* all creations and updates and after everything that refers to r.
Delete(r) ==
  /\ phase \in {"deploying", "destroying"}
  /\ r \in pending
  /\ ~Exists(template, r)
  /\ \A q \in pending : ~Exists(template, q)
  /\ Unreferenced(deployed, r)
  /\ deployed' = [deployed EXCEPT ![r] = NoResource]
  /\ pending' = pending \ {r}
  /\ CASE r = "WebsiteFiles" ->
            LET p == deployed[r]
                b == deployed[p.destinationBucket]
            IN /\ objects' = RemoveFilesObjects(p, objects)
               /\ versions' = RemoveFilesVersions(p, b, versions)
       [] r = "WebsiteBucket" ->
            /\ objects' = IF Emptied(deployed[r]) THEN EmptyDir ELSE objects
            /\ versions' = IF Emptied(deployed[r]) THEN NoVersions ELSE versions
       [] OTHER -> UNCHANGED <<objects, versions>>
  /\ UNCHANGED <<dist, declared, phase, asset, template, since>>

\* The command completes when its change set is applied.
Complete ==
  /\ phase \in {"deploying", "destroying"}
  /\ pending = {}
  /\ phase' = "idle"
  /\ since' = IF phase = "deploying" THEN "deploy" ELSE "destroy"
  /\ asset' = EmptyDir
  /\ template' = NoStack
  /\ UNCHANGED <<dist, declared, pending, deployed, objects, versions>>

Next ==
  \/ \E f \in Files, c \in Contents : EditFile(f, c)
  \/ \E f \in Files : RemoveFile(f)
  \/ RemoveSyncStep
  \/ RestoreSyncStep
  \/ StartDeploy
  \/ StartDestroy
  \/ \E r \in Resources : Provision(r)
  \/ \E r \in Resources : Delete(r)
  \/ Complete

Spec == Init /\ [][Next]_vars

TypeOK ==
  /\ dist \in Dirs /\ asset \in Dirs /\ objects \in Dirs
  /\ declared \subseteq Resources
  /\ pending \subseteq Resources
  /\ phase \in {"idle", "deploying", "destroying"}
  /\ since \in {"nothing", "edit", "deploy", "destroy"}
  /\ \A k \in Files : versions[k] \subseteq Contents

(***************************************************************************)
(* Properties.                                                             *)
(***************************************************************************)
ViaDistribution(req) ==
  /\ req.principal = "cloudfront.amazonaws.com"
  /\ req.sourceArn = "WebsiteDistribution"
  /\ req.secureTransport

\* C1: in every reachable state, a request that the bucket serves an object
\* to is one the stack's distribution makes through its Origin Access
\* Control; every other request for an object is denied.
C1_OnlyThroughDistribution ==
  \A req \in BucketRequests :
    GetObjectAllowed(deployed, objects, req) =>
      ViaDistribution(req) /\ Exists(deployed, "WebsiteDistribution")

\* The site is up: the distribution reads index.html, and the same request
\* made directly by an anonymous client is denied.
C1_Witness ==
  /\ Exists(deployed, "WebsiteDistribution")
  /\ objects["index.html"] # 0
  /\ GetObjectAllowed(deployed, objects,
       [principal |-> "cloudfront.amazonaws.com", sourceArn |-> "WebsiteDistribution",
        secureTransport |-> TRUE, key |-> "index.html"])
  /\ ~GetObjectAllowed(deployed, objects,
       [principal |-> "anonymous", sourceArn |-> "none",
        secureTransport |-> TRUE, key |-> "index.html"])

AllBlocked(b) ==
  /\ b.blockPublicAccess.blockPublicAcls
  /\ b.blockPublicAccess.blockPublicPolicy
  /\ b.blockPublicAccess.ignorePublicAcls
  /\ b.blockPublicAccess.restrictPublicBuckets
  /\ b.accessControl = "PRIVATE"

\* C2: whenever the distribution is declared (in the synthesized template)
\* or deployed, the website bucket is there with all four public-access-block
\* flags on and a private ACL.
C2_PrivateOrigin ==
  /\ Exists(template, "WebsiteDistribution") =>
       Exists(template, "WebsiteBucket") /\ AllBlocked(template["WebsiteBucket"])
  /\ Exists(deployed, "WebsiteDistribution") =>
       Exists(deployed, "WebsiteBucket") /\ AllBlocked(deployed["WebsiteBucket"])

C2_Witness ==
  /\ Exists(deployed, "WebsiteDistribution")
  /\ Exists(template, "WebsiteDistribution")
  /\ AllBlocked(deployed["WebsiteBucket"])

DistinctPriorities(acl) ==
  \A i, j \in 1..Len(acl.rules) :
    i # j => acl.rules[i].priority # acl.rules[j].priority

\* C3: the rules of the WebACL, as declared and as deployed, have pairwise
\* distinct integer priorities.
C3_DistinctPriorities ==
  /\ Exists(template, "WebsiteACL") =>
       /\ DistinctPriorities(template["WebsiteACL"])
       /\ \A i \in 1..Len(template["WebsiteACL"].rules) :
            template["WebsiteACL"].rules[i].priority \in Int
  /\ Exists(deployed, "WebsiteACL") => DistinctPriorities(deployed["WebsiteACL"])

C3_Witness ==
  /\ Exists(deployed, "WebsiteACL")
  /\ Len(deployed["WebsiteACL"].rules) > 1
  /\ DistinctPriorities(deployed["WebsiteACL"])

\* The rules of acl that request m matches, and the one of them that has the
\* lowest priority number.
Matching(acl, m) == {i \in 1..Len(acl.rules) : acl.rules[i].groupName \in m}
FirstMatch(acl, m) ==
  CHOOSE i \in Matching(acl, m) :
    \A j \in Matching(acl, m) : acl.rules[i].priority <= acl.rules[j].priority

\* C4: for every request, the deployed WebACL's outcome is the block of the
\* matching rule with the lowest priority number (override action none keeps
\* the group's own action), and allow, the default action, when no rule
\* matches.
C4_FirstMatchWins ==
  Exists(deployed, "WebsiteACL") =>
    LET acl == deployed["WebsiteACL"]
    IN \A m \in WafRequests :
         Evaluate(acl, m) =
           IF Matching(acl, m) = {}
             THEN [action |-> "allow", rule |-> "default"]
             ELSE [action |-> "block", rule |-> acl.rules[FirstMatch(acl, m)].name]

\* A request that matches two rule groups is blocked by the one of priority
\* 2, not by the one of priority 5; a request that matches none is allowed.
C4_Witness ==
  /\ Exists(deployed, "WebsiteACL")
  /\ Evaluate(deployed["WebsiteACL"],
              {"AWSManagedRulesSQLiRuleSet", "AWSManagedRulesAnonymousIpList"}) =
       [action |-> "block", rule |-> "AWS-AWSManagedRulesAnonymousIpList"]
  /\ Evaluate(deployed["WebsiteACL"], {}) = [action |-> "allow", rule |-> "default"]

\* C5: in every state of a provisioning run or a teardown, the distribution
\* exists only if the bucket and the WebACL exist, and the deployment (and
\* any object it uploaded) only if the bucket exists.
C5_CreatedAfterReferences ==
  /\ Exists(deployed, "WebsiteDistribution") =>
       Exists(deployed, "WebsiteBucket") /\ Exists(deployed, "WebsiteACL")
  /\ Exists(deployed, "WebsiteFiles") => Exists(deployed, "WebsiteBucket")
  /\ objects # EmptyDir => Exists(deployed, "WebsiteBucket")

\* A run in progress: the bucket and the deployment are created, the
\* distribution is still waiting for the WebACL.
C5_Witness ==
  /\ phase = "deploying"
  /\ Exists(deployed, "WebsiteFiles")
  /\ ~Exists(deployed, "WebsiteACL")
  /\ ~Exists(deployed, "WebsiteDistribution")
  /\ Exists(template, "WebsiteDistribution")

\* The running deploy has the deployment in its template and has run it.
SyncDone ==
  /\ phase = "deploying"
  /\ Exists(template, "WebsiteFiles")
  /\ "WebsiteFiles" \notin pending

\* The running deploy is about to run the deployment.
SyncPending ==
  /\ phase = "deploying"
  /\ Exists(template, "WebsiteFiles")
  /\ "WebsiteFiles" \in pending
  /\ DepsReady(template, deployed, pending, "WebsiteFiles")

C7_SyncOnEveryRun ==
  (phase = "idle" /\ since = "deploy" /\ "WebsiteFiles" \in declared) =>
    \A f \in Present(dist) : objects[f] = dist[f]

\* A later run has completed: index.html has its second content, which
\* replaced an earlier version in the bucket.
C7_Witness ==
  /\ phase = "idle" /\ since = "deploy" /\ "WebsiteFiles" \in declared
  /\ dist["index.html"] = 2
  /\ objects["index.html"] = 2
  /\ 1 \in versions["index.html"]

\* C8: a deploy started directly after a completed deploy, with no local
\* change in between, computes an empty change set, and no step
\* of it changes the stack's resources, their properties or the bucket's
\* objects.
C8_Idempotent ==
  [][ (since = "deploy" /\ phase' = "deploying") =>
        /\ pending' = {}
        /\ deployed' = deployed
        /\ objects' = objects
        /\ versions' = versions ]_vars

\* Such a second run is in progress, over a stack with all four constructs
\* and a bucket with objects.
C8_Witness ==
  /\ since = "deploy"
  /\ phase = "deploying"
  /\ Created(deployed) = Resources
  /\ objects # EmptyDir

\* C9: the distribution, as declared and as deployed, has exactly one origin,
\* the declared website bucket, which is the bucket the deployment uploads
\* into; and its webAclId is the declared WebACL.
OneOrigin(stack, d) ==
  /\ Cardinality(stack[d].origins) = 1
  /\ \A o \in stack[d].origins :
       /\ o.bucket \in Resources
       /\ Synthesize(Resources, dist)[o.bucket].type = "s3.Bucket"
       /\ o.bucket = WebsiteFiles(dist).destinationBucket
  /\ stack[d].webAclId \in Resources
  /\ Synthesize(Resources, dist)[stack[d].webAclId].type = "wafv2.CfnWebACL"

C9_OriginResolves ==
  /\ Exists(template, "WebsiteDistribution") => OneOrigin(template, "WebsiteDistribution")
  /\ Exists(deployed, "WebsiteDistribution") =>
       /\ OneOrigin(deployed, "WebsiteDistribution")
       /\ \A o \in deployed["WebsiteDistribution"].origins :
            deployed[o.bucket].type = "s3.Bucket"
       /\ deployed[deployed["WebsiteDistribution"].webAclId].type = "wafv2.CfnWebACL"

C9_Witness ==
  /\ Exists(deployed, "WebsiteDistribution")
  /\ Exists(deployed, "WebsiteFiles")
  /\ \E o \in deployed["WebsiteDistribution"].origins :
       o.bucket = deployed["WebsiteFiles"].destinationBucket

\* C10: during a deploy whose template no longer has the deployment, no step
\* (the deletion of the deployment included) changes an object or a version
\* of the bucket.
C10_RetainOnDelete ==
  [][ (phase = "deploying" /\ ~Exists(template, "WebsiteFiles")) =>
        objects' = objects /\ versions' = versions ]_vars

\* The deployment was removed from the declaration, the run has deleted it
\* from the stack, and the objects it uploaded are still in the bucket.
C10_Witness ==
  /\ phase = "deploying"
  /\ "WebsiteFiles" \notin declared
  /\ ~Exists(deployed, "WebsiteFiles")
  /\ Exists(deployed, "WebsiteBucket")
  /\ objects # EmptyDir

\* A step that ends a teardown leaves no construct, no object and no version.
TeardownDeletesAll ==
  (phase = "destroying" /\ phase' = "idle") =>
    deployed' = NoStack /\ objects' = EmptyDir /\ versions' = NoVersions

\* An object disappears only in a teardown or when the sync prunes it because
\* its file is gone locally; a version disappears only in a teardown.
ObjectsDestroyedOnlyBy ==
  /\ \A f \in Files :
       (objects[f] # 0 /\ objects'[f] = 0) =>
         \/ phase = "destroying"
         \/ /\ phase = "deploying"
            /\ "WebsiteFiles" \in pending /\ "WebsiteFiles" \notin pending'
            /\ Exists(template, "WebsiteFiles")
            /\ dist[f] = 0
  /\ \A f \in Files :
       ~(versions[f] \subseteq versions'[f]) => phase = "destroying"

EntryImport ==
  [name |-> "CloudFoundationProjectStack", module |-> "lib/cloud-foundation-project-stack"]

\* The stack classes the repository defines and exports, each with the
\* constructs its constructor declares.
ExportedClasses ==
  {[name |-> "AleezaStack", module |-> "bin/cloud-foundation-project",
    constructs |-> Resources]}

\* The classes an import binds to: those of that name exported by that module.
Resolve(imp) ==
  {c \in ExportedClasses : c.name = imp.name /\ c.module = imp.module}

\* The stacks the entry point constructs: one `new`, of the imported class.
AppStacks == {[id |-> "CloudFoundationProjectStack", class |-> EntryImport]}

\* C12: the entry point instantiates exactly one stack, with id
\* 'CloudFoundationProjectStack', and the class it imports and constructs is
\* a stack class the repository defines, the one declaring all four
\* resources: whenever a command has a template with constructs of the
\* stack, they come from a class the entry point's import binds to.
C12_EntryPointBuildsTheStack ==
  Created(template) # {} =>
    /\ Cardinality(AppStacks) = 1
    /\ \A st \in AppStacks :
         /\ st.id = "CloudFoundationProjectStack"
         /\ \E c \in Resolve(st.class) : Created(template) \subseteq c.constructs
         /\ \E c \in Resolve(st.class) : c.constructs = Resources

\* The managed rule groups the README lists.
ReadmeGroups ==
  {"AWSManagedRulesCommonRuleSet", "AWSManagedRulesAnonymousIpList",
   "AWSManagedRulesAmazonIpReputationList", "AWSManagedRulesKnownBadInputsRuleSet",
   "AWSManagedRulesSQLiRuleSet"}

FiveManagedGroupsInOrder(acl) ==
  /\ Len(acl.rules) = Cardinality(ReadmeGroups)
  /\ {acl.rules[i].groupName : i \in 1..Len(acl.rules)} = ReadmeGroups
  /\ \A i \in 1..Len(acl.rules) :
       /\ acl.rules[i].vendorName = "AWS"
       /\ acl.rules[i].overrideAction = "none"
       /\ acl.rules[i].priority = i
  /\ \A i, j \in 1..Len(acl.rules) :
       i < j => acl.rules[i].priority < acl.rules[j].priority
  /\ ByPriority({acl.rules[i] : i \in 1..Len(acl.rules)}) = acl.rules

\* C13: the WebACL's rules, as declared and as deployed, are exactly the five
\* AWS managed rule groups of the README, each of vendor AWS with override
\* action none, with priorities 1..5 ascending in list order, so that the
\* order of evaluation is the order of the list.
C13_FiveGroupsAscending ==
  /\ Exists(template, "WebsiteACL") => FiveManagedGroupsInOrder(template["WebsiteACL"])
  /\ Exists(deployed, "WebsiteACL") => FiveManagedGroupsInOrder(deployed["WebsiteACL"])

C13_Witness ==
  /\ Exists(deployed, "WebsiteACL")
  /\ deployed["WebsiteACL"].rules[1].groupName = "AWSManagedRulesCommonRuleSet"
  /\ deployed["WebsiteACL"].rules[5].groupName = "AWSManagedRulesSQLiRuleSet"
  /\ FiveManagedGroupsInOrder(deployed["WebsiteACL"])

\* C14: every current object is one of the bucket's versions, and no step
\* other than the deletion of the bucket removes a version: what a sync
\* overwrote or pruned stays retrievable until the bucket is torn down.
C14_PastVersionsKept ==
  [][ /\ \A k \in Files : objects'[k] # 0 => objects'[k] \in versions'[k]
      /\ (Exists(deployed, "WebsiteBucket") /\ Exists(deployed', "WebsiteBucket")) =>
           \A k \in Files : versions[k] \subseteq versions'[k] ]_vars

\* index.html was overwritten and script.js pruned by later syncs; the first
\* content of each is still a version of the bucket.
C14_Witness ==
  /\ Exists(deployed, "WebsiteBucket")
  /\ objects["index.html"] = 2 /\ 1 \in versions["index.html"]
  /\ objects["script.js"] = 0 /\ 1 \in versions["script.js"]

\* path.join: the segments in order, each '..' dropping the one before it.
RECURSIVE JoinFrom(_, _, _)
JoinFrom(p, i, acc) ==
  IF i > Len(p) THEN acc
  ELSE IF p[i] = ".." THEN JoinFrom(p, i + 1, SubSeq(acc, 1, Len(acc) - 1))
  ELSE JoinFrom(p, i + 1, Append(acc, p[i]))
Join(p) == JoinFrom(p, 1, << >>)

\* __dirname of the file that declares the stack, and the directory the
\* deployment takes its asset from.
ThisDir == << "bin" >>
SourceDir == Join(ThisDir \o << "..", "dist" >>)

\* The dist directory of the repository and the files it holds.
RepositoryDist == << "dist" >>
RepositoryDistFiles == {"index.html"}

RootRequest(stack) ==
  [principal |-> "cloudfront.amazonaws.com", sourceArn |-> "WebsiteDistribution",
   secureTransport |-> TRUE, key |-> stack["WebsiteDistribution"].defaultRootObject]

SameIndexDocument(stack) ==
  (Exists(stack, "WebsiteDistribution") /\ Exists(stack, "WebsiteBucket")) =>
    /\ stack["WebsiteDistribution"].defaultRootObject = "index.html"
    /\ stack["WebsiteBucket"].websiteIndexDocument = "index.html"

\* C15: the distribution's default root object and the bucket's index
\* document are both 'index.html'; the deployment reads the repository's dist
\* directory; and after a completed deploy with that directory's files the
\* bucket has an object of that name, which the distribution is served for
\* every root request the WebACL allows.
C15_RootObjectExists ==
  /\ SameIndexDocument(template)
  /\ SameIndexDocument(deployed)
  /\ SourceDir = RepositoryDist
  /\ (/\ phase = "idle" /\ since = "deploy" /\ "WebsiteFiles" \in declared
      /\ RepositoryDistFiles \subseteq Present(dist)) =>
       /\ deployed["WebsiteDistribution"].defaultRootObject \in Files
       /\ objects[deployed["WebsiteDistribution"].defaultRootObject] # 0
       /\ \A m \in WafRequests :
            Evaluate(deployed["WebsiteACL"], m).action = "allow" =>
              GetObjectAllowed(deployed, objects, RootRequest(deployed))

C15_Witness ==
  /\ phase = "idle" /\ since = "deploy" /\ "WebsiteFiles" \in declared
  /\ RepositoryDistFiles \subseteq Present(dist)
  /\ Exists(deployed, "WebsiteDistribution")
  /\ objects["index.html"] # 0
  /\ Evaluate(deployed["WebsiteACL"], {}).action = "allow"
  /\ GetObjectAllowed(deployed, objects, RootRequest(deployed))

====
